---- MODULE Spec2Model ----
(***************************************************************************)
(* A model of src/src/main.ts: a WebGPU ray tracer.                        *)
(*                                                                         *)
(* Two specifications share this module.                                   *)
(*                                                                         *)
(*   Spec        the host side of main(): startup, the ResizeObserver     *)
(*               callback, render(), and the device queue that executes    *)
(*               what render() submits.                                    *)
(*   SpecShader  the WGSL functions (setFaceNormal, hit_sphere, rayColor,  *)
(*               the compute entry point under one dispatch), each applied *)
(*               to inputs drawn from bounded sets.                        *)
(***************************************************************************)
EXTENDS Integers, Sequences, FiniteSets

VARIABLES
    maxTextureDimension2D, \* device.limits.maxTextureDimension2D
    canvas,                \* canvas.width, canvas.height
    contextSize,           \* the size the context was last configured with
    textureSize,           \* main's textureSize
    computeShader,         \* main's computeShader: bindGroup and texture
    renderBindGroup,       \* main's renderBindGroup
    textures,              \* every GPUTexture created with device.createTexture
    queue,                 \* device.queue: command buffers submitted, not finished
    frames,                \* one record per call of render(), in call order
    submitted,             \* number of device.queue.submit calls
    lastEntry,             \* the size reported by the last ResizeObserver entry
    resizes,               \* number of ResizeObserver entries handled
    started,               \* main() has run
    call,                  \* SpecShader: the shader function applied and its input
    result                 \* SpecShader: what it returned

hostVars == <<maxTextureDimension2D, canvas, contextSize, textureSize, computeShader,
              renderBindGroup, textures, queue, frames, submitted, lastEntry,
              resizes, started>>
shaderVars == <<call, result>>
vars == <<hostVars, shaderVars>>

\* A size not yet set, a bind group not yet made, and no entry handled yet.
NoSize == [width |-> 0, height |-> 0]
NoBindGroup == [resource |-> 0]
NoEntry == [width |-> -1, height |-> -1]

-----------------------------------------------------------------------------
(* Bounds of the model.                                                    *)

\* ResizeObserver entries handled in one behaviour.
MaxResizes == 2
\* Fixed-point units per 1.0 in the model of the shader's f32 arithmetic.
Scale == 1024
\* Ray origins have coordinates k/2, directions have coordinates k, and the
\* outward normals given to setFaceNormal have coordinates k/2.
MaxCoord == 2
MaxDir == 1
\* Image sizes of the dispatch: 1..MaxDim in each dimension.
MaxDim == 17

-----------------------------------------------------------------------------
(* Program constants.                                                      *)

\* const width = 400
width == 400
\* const aspectRation = 16.0 / 9.0, as numerator and denominator
aspectNumerator == 16
aspectDenominator == 9
\* const height = Math.floor(width / aspectRation); 400 / (16 / 9) is exactly
\* 225 in IEEE double arithmetic, so the integer quotient is the same number.
height == (width * aspectDenominator) \div aspectNumerator
\* @workgroup_size(8, 8), and the divisor of dispatchWorkgroups
workgroupSize == 8

\* adapter.requestDevice() is called without requiredLimits, so the device has
\* WebGPU's default limit.
DeviceLimits == {8192}

\* The content sizes a ResizeObserver entry may report for the canvas.
EntryWidths == {0, 400, 800, 9000}
EntryHeights == {0, 225, 600}
EntrySizes == {[width |-> w, height |-> h] : w \in EntryWidths, h \in EntryHeights}

-----------------------------------------------------------------------------
(* Host helpers.                                                           *)

Min(a, b) == IF a < b THEN a ELSE b
Max(a, b) == IF a > b THEN a ELSE b

\* Math.ceil(a / b) for a >= 0, b > 0
CeilDiv(a, b) == (a + b - 1) \div b

\* Math.max(1, Math.min(v, device.limits.maxTextureDimension2D))
ClampDimension(v, limit) == Max(1, Min(v, limit))

\* The closure state of main() and the device state, as one record.
Cur ==
    [canvas |-> canvas, contextSize |-> contextSize, textureSize |-> textureSize,
     computeShader |-> computeShader, renderBindGroup |-> renderBindGroup,
     textures |-> textures, queue |-> queue, frames |-> frames,
     submitted |-> submitted]

Commit(m) ==
    /\ canvas' = m.canvas
    /\ contextSize' = m.contextSize
    /\ textureSize' = m.textureSize
    /\ computeShader' = m.computeShader
    /\ renderBindGroup' = m.renderBindGroup
    /\ textures' = m.textures
    /\ queue' = m.queue
    /\ frames' = m.frames
    /\ submitted' = m.submitted

\* Mutant: the texture is made with width and height exchanged.
CreateComputeShaderTransposed(m, size) ==
    LET id == Len(m.textures) + 1
        texture == [width |-> size.height, height |-> size.width,
                    destroyed |-> FALSE, content |-> 0]
    IN [m EXCEPT !.textures = Append(@, texture),
                 !.computeShader = [bindGroup |-> [resource |-> id], texture |-> id]]

\* Mutant: the texture made by the previous call is destroyed.
CreateComputeShaderDestroyPrior(m, size) ==
    LET id == Len(m.textures) + 1
        texture == [width |-> size.width, height |-> size.height,
                    destroyed |-> FALSE, content |-> 0]
        kept == [i \in 1..Len(m.textures) |-> [m.textures[i] EXCEPT !.destroyed = TRUE]]
    IN [m EXCEPT !.textures = Append(kept, texture),
                 !.computeShader = [bindGroup |-> [resource |-> id], texture |-> id]]

\* createComputeShader, and the assignment of its result to computeShader.
\* device.createTexture makes a new texture of the given size; nothing is done
\* to any texture made before.  The bind group's entry is a view of the new
\* texture.
CreateComputeShader(m, size) ==
    LET id == Len(m.textures) + 1
        texture == [width |-> size.width, height |-> size.height,
                    destroyed |-> FALSE, content |-> 0]
    IN [m EXCEPT !.textures = Append(@, texture),
                 !.computeShader = [bindGroup |-> [resource |-> id], texture |-> id]]

\* Mutant: the bind group is made once and kept.
UpdateBindGroupsOnce(m) ==
    IF m.renderBindGroup # NoBindGroup THEN m
    ELSE [m EXCEPT !.renderBindGroup = [resource |-> m.computeShader.texture]]

\* updateBindGroups: renderBindGroup's binding 1 is a view of computeShader.texture
UpdateBindGroups(m) ==
    [m EXCEPT !.renderBindGroup = [resource |-> m.computeShader.texture]]

\* dispatchWorkgroups(Math.ceil(textureSize.width / 8), Math.ceil(textureSize.height / 8))
WorkgroupCount(size) ==
    <<CeilDiv(size.width, workgroupSize), CeilDiv(size.height, workgroupSize)>>

\* Mutant: the render pass is encoded before the compute pass.
EncodePassesSwapped(m) ==
    << [kind |-> "render", bindGroup |-> m.renderBindGroup,
        workgroups |-> <<0, 0>>, status |-> "encoded"],
       [kind |-> "compute", bindGroup |-> m.computeShader.bindGroup,
        workgroups |-> WorkgroupCount(m.textureSize),
        status |-> "encoded"] >>

\* The passes render() encodes, in encoding order.
EncodePasses(m) ==
    << [kind |-> "compute", bindGroup |-> m.computeShader.bindGroup,
        workgroups |-> WorkgroupCount(m.textureSize),
        status |-> "encoded"],
       [kind |-> "render", bindGroup |-> m.renderBindGroup,
        workgroups |-> <<0, 0>>, status |-> "encoded"] >>

\* render(): one command encoder, finished and submitted once.  Nothing in it
\* waits for the queue.  The frame record keeps what render() used.
Render(m) ==
    LET f == Len(m.frames) + 1
        passes == EncodePasses(m)
        frame == [texture |-> m.computeShader.texture,
                  textureSize |-> m.textureSize,
                  kernelBinding |-> m.computeShader.bindGroup.resource,
                  presentBinding |-> m.renderBindGroup.resource,
                  computeDone |-> FALSE, presentBegun |-> FALSE,
                  presentSaw |-> 0, wrote |-> 0, done |-> FALSE,
                  doneAfterResizes |-> 0]
    IN [m EXCEPT !.queue = Append(@, [frame |-> f, passes |-> passes]),
                 !.submitted = @ + 1,
                 !.frames = Append(@, frame)]

\* main(), from "const width = 400" to the initial render().
MainBody(m, limit) ==
    LET m1 == [m EXCEPT !.canvas = [width |-> ClampDimension(width, limit),
                                    height |-> ClampDimension(height, limit)]]
        m2 == [m1 EXCEPT !.textureSize = m1.canvas]
        m3 == CreateComputeShader(m2, m2.textureSize)
        m4 == UpdateBindGroups(m3)
    IN Render(m4)

\* The ResizeObserver callback's body for one entry.  The entry's own size is
\* not read: the new canvas size is computed from main's width and height.
ResizeBody(m, entry, limit) ==
    LET m1 == [m EXCEPT !.canvas = [width |-> ClampDimension(width, limit),
                                    height |-> ClampDimension(height, limit)]]
        m2 == [m1 EXCEPT !.contextSize = m1.canvas]
        m3 == [m2 EXCEPT !.textureSize = m2.canvas]
        m4 == CreateComputeShader(m3, m3.textureSize)
        m5 == UpdateBindGroups(m4)
    IN Render(m5)

-----------------------------------------------------------------------------
(* Host actions.                                                           *)

Main ==
    /\ ~started
    /\ Commit(MainBody(Cur, maxTextureDimension2D))
    /\ started' = TRUE
    /\ UNCHANGED <<maxTextureDimension2D, lastEntry, resizes, shaderVars>>

Resize ==
    /\ started
    /\ resizes < MaxResizes
    /\ \E entry \in EntrySizes :
          /\ Commit(ResizeBody(Cur, entry, maxTextureDimension2D))
          /\ lastEntry' = entry
    /\ resizes' = resizes + 1
    /\ UNCHANGED <<maxTextureDimension2D, started, shaderVars>>

\* Index of the first pass of the head command buffer that is not done.
HeadPass == CHOOSE i \in 1..Len(queue[1].passes) :
               /\ queue[1].passes[i].status # "done"
               /\ \A j \in 1..(i - 1) : queue[1].passes[j].status = "done"

\* The queue starts the next pass of its oldest command buffer.  A render pass
\* samples its texture from here on.
GpuBeginPass ==
    /\ queue # <<>>
    /\ LET i == HeadPass
           pass == queue[1].passes[i]
           f == queue[1].frame
       IN /\ pass.status = "encoded"
          /\ queue' = [queue EXCEPT ![1].passes[i].status = "running"]
          /\ frames' = IF pass.kind = "render"
                       THEN [frames EXCEPT ![f].presentBegun = TRUE,
                                           ![f].presentSaw =
                                               textures[pass.bindGroup.resource].content]
                       ELSE frames
    /\ UNCHANGED <<maxTextureDimension2D, canvas, contextSize, textureSize,
                   computeShader, renderBindGroup, textures, submitted, lastEntry,
                   resizes, started, shaderVars>>

\* The running pass completes.  A compute pass has then written its texture; a
\* command buffer whose last pass completed leaves the queue.
GpuEndPass ==
    /\ queue # <<>>
    /\ LET i == HeadPass
           pass == queue[1].passes[i]
           f == queue[1].frame
           last == i = Len(queue[1].passes)
       IN /\ pass.status = "running"
          /\ textures' = IF pass.kind = "compute"
                         THEN [textures EXCEPT ![pass.bindGroup.resource].content = f]
                         ELSE textures
          /\ frames' = [frames EXCEPT
                           ![f].computeDone = @ \/ pass.kind = "compute",
                           ![f].wrote = IF pass.kind = "compute"
                                        THEN pass.bindGroup.resource ELSE @,
                           ![f].done = last,
                           ![f].doneAfterResizes = IF last THEN resizes ELSE @]
          /\ queue' = IF last THEN Tail(queue)
                      ELSE [queue EXCEPT ![1].passes[i].status = "done"]
    /\ UNCHANGED <<maxTextureDimension2D, canvas, contextSize, textureSize,
                   computeShader, renderBindGroup, submitted, lastEntry,
                   resizes, started, shaderVars>>

HostInit ==
    /\ maxTextureDimension2D \in DeviceLimits
    /\ canvas = [width |-> 300, height |-> 150]   \* an HTML canvas's default size
    /\ contextSize = NoSize                       \* initWebGPU configures without a size
    /\ textureSize = NoSize
    /\ computeShader = [bindGroup |-> NoBindGroup, texture |-> 0]
    /\ renderBindGroup = NoBindGroup
    /\ textures = <<>>
    /\ queue = <<>>
    /\ frames = <<>>
    /\ submitted = 0
    /\ lastEntry = NoEntry
    /\ resizes = 0
    /\ started = FALSE


-----------------------------------------------------------------------------
(* The shader's arithmetic.                                                *)
(*                                                                         *)
(* An f32 is modelled as a fixed-point number: the integer v stands for    *)
(* v / Scale.  Products and quotients round toward zero, so that, as in    *)
(* IEEE arithmetic, negating an operand negates the result.                *)

Abs(a) == IF a < 0 THEN -a ELSE a
Sign(a) == IF a < 0 THEN -1 ELSE 1

\* The fixed-point number for the integer n, and for the fraction n / d.
Fx(n) == n * Scale
Frac(n, d) == (n * Scale) \div d

\* a * b.  The product is split to keep the intermediate values small.
Mul(a, b) ==
    LET x == Abs(a)
        y == Abs(b)
    IN (Sign(a) * Sign(b)) * ((x \div Scale) * y + ((x % Scale) * y) \div Scale)

\* a / b, b # 0
Div(a, b) == (Sign(a) * Sign(b)) * ((Abs(a) * Scale) \div Abs(b))

RECURSIVE ISqrtSearch(_, _, _)
ISqrtSearch(n, lo, hi) ==
    IF lo >= hi THEN lo
    ELSE LET mid == (lo + hi + 1) \div 2
         IN IF mid * mid <= n THEN ISqrtSearch(n, mid, hi)
            ELSE ISqrtSearch(n, lo, mid - 1)

\* sqrt(a), a >= 0
Sqrt(a) == ISqrtSearch(a * Scale, 0, Min(a * Scale, 46340))

Vec(x, y, z) == [x |-> x, y |-> y, z |-> z]
Zero == Vec(0, 0, 0)
VAdd(u, v) == Vec(u.x + v.x, u.y + v.y, u.z + v.z)
VSub(u, v) == Vec(u.x - v.x, u.y - v.y, u.z - v.z)
VNeg(u) == Vec(-u.x, -u.y, -u.z)
VMul(u, k) == Vec(Mul(u.x, k), Mul(u.y, k), Mul(u.z, k))
VDiv(u, k) == Vec(Div(u.x, k), Div(u.y, k), Div(u.z, k))
dot(u, v) == Mul(u.x, v.x) + Mul(u.y, v.y) + Mul(u.z, v.z)
normalize(u) == VDiv(u, Sqrt(dot(u, u)))

\* vec2<i32>(coords) of a u32
I32(u) == IF u < 2147483647 THEN u ELSE u - 2147483647 - 2147483647 - 2

-----------------------------------------------------------------------------
(* The shader's functions.                                                 *)

\* fn rayAt(ray, t)
rayAt(ray, t) == VAdd(ray.origin, VMul(ray.direction, t))

\* Mutant: the outward normal is returned as it is, whatever the ray's side.
setFaceNormalNoFlip(rec, r, outwardNormal) ==
    [front_face |-> dot(r.direction, outwardNormal) < 0, normal |-> outwardNormal]

\* fn setFaceNormal(rec, r, outwardNormal)
setFaceNormal(rec, r, outwardNormal) ==
    LET frontFaceDirections == dot(r.direction, outwardNormal)
    IN IF frontFaceDirections < 0
       THEN [front_face |-> TRUE, normal |-> outwardNormal]
       ELSE [front_face |-> FALSE, normal |-> VNeg(outwardNormal)]

\* root <= ray_tmin || ray_tmax <= root
RootOutOfRange(root, ray_tmin, ray_tmax) == root <= ray_tmin \/ ray_tmax <= root

\* let discriminant = h * h - a * c, in hit_sphere
Discriminant(sphere, r) ==
    LET oc == VSub(sphere.center, r.origin)
        a == dot(r.direction, r.direction)
        h == dot(r.direction, oc)
        c == dot(oc, oc) - Mul(sphere.radius, sphere.radius)
    IN Mul(h, h) - Mul(a, c)

\* var rec: HitRecord; rec.hit = false;   WGSL zero-initialises the variable.
MissRecord == [p |-> Zero, normal |-> Zero, t |-> 0, hit |-> FALSE, front_face |-> FALSE]

\* fn hit_sphere(sphere, r, ray_tmin, ray_tmax)
hit_sphere(sphere, r, ray_tmin, ray_tmax) ==
    LET oc == VSub(sphere.center, r.origin)
        a == dot(r.direction, r.direction)
        h == dot(r.direction, oc)
        discriminant == Discriminant(sphere, r)
    IN IF discriminant < 0 THEN MissRecord
       ELSE
         LET sqrtd == Sqrt(discriminant)
             root1 == Div(h - sqrtd, a)
             root2 == Div(h + sqrtd, a)
             retry == RootOutOfRange(root1, ray_tmin, ray_tmax)
         IN IF retry /\ RootOutOfRange(root2, ray_tmin, ray_tmax) THEN MissRecord
            ELSE
              LET t == IF retry THEN root2 ELSE root1
                  p == rayAt(r, t)
                  outward == VDiv(VSub(p, sphere.center), sphere.radius)
                  faceNormalRec ==
                      setFaceNormal([MissRecord EXCEPT !.t = t, !.p = p, !.normal = outward],
                                    r, outward)
              IN [p |-> p, normal |-> faceNormalRec.normal, t |-> t, hit |-> TRUE,
                  front_face |-> faceNormalRec.front_face]

\* Sphere(vec3<f32>(0.0, 0.0, -1.0), 0.5), and the interval 0.0 .. 10000.0
TheSphere == [center |-> Vec(0, 0, Fx(-1)), radius |-> Frac(1, 2)]
TMin == Fx(0)
TMax == Fx(10000)

\* fn lerp(a, b, t)
lerp(a, b, t) == VAdd(VMul(a, Fx(1) - t), VMul(b, t))

\* Mutant: the test is rec.t >= 0.0
ShadeTestNonNegative(rec) == rec.t >= 0

\* if (rec.t > 0.0), in rayColor
ShadeTest(rec) == rec.t > 0

\* fn rayColor(ray).  fieldsRead are the fields of rec the function reads on
\* the path it takes: rec.t in the test, and rec.t again in rayAt(ray, rec.t).
\* rec.hit is read nowhere.
rayColor(ray) ==
    LET rec == hit_sphere(TheSphere, ray, TMin, TMax)
    IN IF ShadeTest(rec)
       THEN LET N == normalize(VSub(rayAt(ray, rec.t), TheSphere.center))
            IN [rec |-> rec, branch |-> "normal", fieldsRead |-> {"t"},
                color |-> VMul(Vec(N.x + Fx(1), N.y + Fx(1), N.z + Fx(1)), Frac(1, 2))]
       ELSE LET unit_direction == normalize(ray.direction)
                a == Mul(Frac(1, 2), unit_direction.y + Fx(1))
            IN [rec |-> rec, branch |-> "gradient", fieldsRead |-> {"t"},
                color |-> lerp(Vec(Fx(1), Fx(1), Fx(1)),
                               Vec(Frac(1, 2), Frac(7, 10), Fx(1)), a)]

\* fn createRay(uv), with dims = textureDimensions(output)
createRay(uv, dims) ==
    LET aspectRatio == Div(Fx(dims.width), Fx(dims.height))
        direction == Vec(Mul(uv.x, aspectRatio), uv.y, Fx(-1))
    IN [origin |-> Zero, direction |-> normalize(direction)]

\* Mutant: the bounds test is missing.
computeMainUnguarded(id, dims) ==
    LET uv == [x |-> Mul(Div(Fx(id.x) + Frac(1, 2), Fx(dims.width)), Fx(2)) - Fx(1),
               y |-> Mul(Div(Fx(id.y) + Frac(1, 2), Fx(dims.height)), Fx(2)) - Fx(1)]
    IN {[id |-> id, coords |-> [x |-> I32(id.x), y |-> I32(id.y)],
         value |-> rayColor(createRay(uv, dims)).color]}

\* @compute @workgroup_size(8, 8) fn main(id): the set of textureStore calls
\* one invocation makes, empty when it returns at the bounds test.
computeMain(id, dims) ==
    IF id.x >= dims.width \/ id.y >= dims.height THEN {}
    ELSE LET uv == [x |-> Mul(Div(Fx(id.x) + Frac(1, 2), Fx(dims.width)), Fx(2)) - Fx(1),
                    y |-> Mul(Div(Fx(id.y) + Frac(1, 2), Fx(dims.height)), Fx(2)) - Fx(1)]
         IN {[id |-> id, coords |-> [x |-> I32(id.x), y |-> I32(id.y)],
              value |-> rayColor(createRay(uv, dims)).color]}

\* The global invocation ids of a dispatch of count[1] x count[2] workgroups.
Invocations(count) ==
    {[x |-> wx * workgroupSize + lx, y |-> wy * workgroupSize + ly] :
        wx \in 0..(count[1] - 1), wy \in 0..(count[2] - 1),
        lx \in 0..(workgroupSize - 1), ly \in 0..(workgroupSize - 1)}

\* One dispatch of render() over an image of size dims: every textureStore made.
Dispatch(dims) ==
    UNION {computeMain(id, dims) : id \in Invocations(WorkgroupCount(dims))}

-----------------------------------------------------------------------------
(* SpecShader: one shader function applied to one input.                   *)

HalfSteps == {k * (Scale \div 2) : k \in -MaxCoord..MaxCoord}
DirSteps == {Fx(k) : k \in -MaxDir..MaxDir}
Points == {Vec(x, y, z) : x \in HalfSteps, y \in HalfSteps, z \in HalfSteps}
Directions == {Vec(x, y, z) : x \in DirSteps, y \in DirSteps, z \in DirSteps} \ {Zero}

Sizes == {[width |-> w, height |-> h] : w \in 1..MaxDim, h \in 1..MaxDim}

NoRay == [origin |-> Zero, direction |-> Zero]
NoCall == [fn |-> "none", ray |-> NoRay, outwardNormal |-> Zero, dims |-> NoSize]
NoShade == [rec |-> MissRecord, branch |-> "none", fieldsRead |-> {}, color |-> Zero]
NoFace == [front_face |-> FALSE, normal |-> Zero]
NoResult == [fn |-> "none", shade |-> NoShade, face |-> NoFace, writes |-> {}]

RayColorOf(o, d) == [NoCall EXCEPT !.fn = "rayColor", !.ray = [origin |-> o, direction |-> d]]
SetFaceNormalOf(d, n) ==
    [NoCall EXCEPT !.fn = "setFaceNormal", !.ray = [origin |-> Zero, direction |-> d],
                   !.outwardNormal = n]
DispatchOf(dims) == [NoCall EXCEPT !.fn = "dispatch", !.dims = dims]

\* The host is not part of SpecShader: it stays as it is on entry to main().
HostIdle ==
    /\ HostInit
    /\ maxTextureDimension2D = 8192

ShaderInit ==
    /\ HostIdle
    /\ \/ \E o \in Points, d \in Directions : call = RayColorOf(o, d)
       \/ \E d \in Directions, n \in Points : call = SetFaceNormalOf(d, n)
       \/ \E dims \in Sizes : call = DispatchOf(dims)
    /\ result = NoResult

RayColorCall ==
    /\ call.fn = "rayColor"
    /\ result = NoResult
    /\ result' = [NoResult EXCEPT !.fn = call.fn, !.shade = rayColor(call.ray)]
    /\ UNCHANGED <<call, hostVars>>

SetFaceNormalCall ==
    /\ call.fn = "setFaceNormal"
    /\ result = NoResult
    /\ result' = [NoResult EXCEPT !.fn = call.fn,
                     !.face = setFaceNormal(MissRecord, call.ray, call.outwardNormal)]
    /\ UNCHANGED <<call, hostVars>>

DispatchCall ==
    /\ call.fn = "dispatch"
    /\ result = NoResult
    /\ result' = [NoResult EXCEPT !.fn = call.fn, !.writes = Dispatch(call.dims)]
    /\ UNCHANGED <<call, hostVars>>

ShaderNext ==
    \/ RayColorCall
    \/ SetFaceNormalCall
    \/ DispatchCall

SpecShader == ShaderInit /\ [][ShaderNext]_vars

-----------------------------------------------------------------------------
(* Spec: the host.  The shader harness is not part of it.                  *)

Init ==
    /\ HostInit
    /\ call = NoCall
    /\ result = NoResult

Next ==
    \/ Main
    \/ Resize
    \/ GpuBeginPass
    \/ GpuEndPass

Spec == Init /\ [][Next]_vars

-----------------------------------------------------------------------------
(* Claims about the host side, stated for Spec.                             *)

\* The size of the presentation surface: the canvas's, until configure is
\* given a size of its own.
PresentationSize == IF contextSize = NoSize THEN canvas ELSE contextSize

SizeOf(id) == [width |-> textures[id].width, height |-> textures[id].height]

LiveImages == {id \in 1..Len(textures) : ~textures[id].destroyed}

\* C1: every render() ran with the kernel bind group and the presentation bind
\* group both referencing the texture that was computeShader.texture at that
\* moment, and between handlers both bind groups reference computeShader.texture.
C1_RenderUsesCurrentBindings ==
    /\ \A f \in 1..Len(frames) :
          /\ frames[f].kernelBinding = frames[f].texture
          /\ frames[f].presentBinding = frames[f].texture
    /\ started =>
          /\ computeShader.bindGroup.resource = computeShader.texture
          /\ renderBindGroup.resource = computeShader.texture
          /\ computeShader.texture = Len(textures)

\* C1's case: a render that ran after the Output Image was replaced.
C1_Witness ==
    /\ resizes >= 1
    /\ Len(frames) >= 2
    /\ frames[Len(frames)].texture # frames[1].texture
    /\ frames[Len(frames)].presentBinding = computeShader.texture

\* C2: once main() has run, exactly one created texture is not destroyed.
C2_OneLiveImage == started => Cardinality(LiveImages) = 1

\* C3: after a ResizeObserver entry is handled, the canvas and the Output Image
\* have the entry's width and height, each clamped to [1, limit].
C3_EntrySizeApplied ==
    lastEntry # NoEntry =>
        LET want == [width |-> ClampDimension(lastEntry.width, maxTextureDimension2D),
                     height |-> ClampDimension(lastEntry.height, maxTextureDimension2D)]
        IN /\ canvas = want
           /\ SizeOf(computeShader.texture) = want

\* C4: once main() has run, textureSize, the Output Image's size and the
\* presentation surface's size are one size, with width and height in
\* [1, maxTextureDimension2D].
C4_ImageMatchesSurface ==
    started =>
        /\ textureSize = canvas
        /\ SizeOf(computeShader.texture) = textureSize
        /\ PresentationSize = canvas
        /\ canvas.width \in 1..maxTextureDimension2D
        /\ canvas.height \in 1..maxTextureDimension2D

\* C4's case: a resize handler has completed and the image made by it has the
\* size the context was configured with.
C4_Witness ==
    /\ resizes >= 1
    /\ computeShader.texture > 1
    /\ contextSize = canvas
    /\ SizeOf(computeShader.texture) = contextSize

PassKinds(cb) == [i \in 1..Len(cb.passes) |-> cb.passes[i].kind]

\* C6, the state part: one submit per render(); every submitted command buffer
\* is a compute pass followed by a render pass; a frame's render pass begins
\* only when its compute pass is complete, and samples what that pass wrote.
C6_Inv ==
    /\ submitted = Len(frames)
    /\ \A i \in 1..Len(queue) : PassKinds(queue[i]) = <<"compute", "render">>
    /\ \A f \in 1..Len(frames) :
          /\ frames[f].presentBegun => frames[f].computeDone /\ frames[f].presentSaw = f
          /\ frames[f].done => frames[f].presentBegun

\* C6, the step part: a step that runs render() appends one command buffer whose
\* passes have not begun, and leaves everything already in the queue as it was.
C6_Step ==
    Len(frames') = Len(frames) + 1 =>
        /\ submitted' = submitted + 1
        /\ Len(queue') = Len(queue) + 1
        /\ SubSeq(queue', 1, Len(queue)) = queue
        /\ queue'[Len(queue')].frame = Len(frames')
        /\ \A i \in 1..Len(queue'[Len(queue')].passes) :
              queue'[Len(queue')].passes[i].status = "encoded"
        /\ ~frames'[Len(frames')].computeDone
        /\ ~frames'[Len(frames')].done

\* C6: each render() submits once, compute pass then render pass; the render
\* pass reads the image after the frame's dispatch completed; render() returns
\* with its work still queued.
C6_RenderSubmitsOnce == [](C6_Inv) /\ [][C6_Step]_vars

\* C6's case: a frame has been presented from its own kernel's output while a
\* later render() has returned with its command buffer not yet begun.
C6_Witness ==
    /\ Len(queue) >= 2
    /\ frames[queue[1].frame].presentBegun
    /\ frames[queue[1].frame].presentSaw = queue[1].frame
    /\ queue[2].passes[1].status = "encoded"

InFlight == {<<i, j>> \in (1..Len(queue)) \X (1..2) : j <= Len(queue[i].passes)}
InFlightTextures == {queue[p[1]].passes[p[2]].bindGroup.resource : p \in InFlight}

\* C7, the state part: every texture a queued pass references is not destroyed
\* and has the size it had at submission; every completed frame wrote and
\* presented the texture that was current when it was submitted.
C7_Inv ==
    /\ \A p \in InFlight :
          LET id == queue[p[1]].passes[p[2]].bindGroup.resource
          IN /\ ~textures[id].destroyed
             /\ SizeOf(id) = frames[queue[p[1]].frame].textureSize
             /\ id = frames[queue[p[1]].frame].texture
    /\ \A f \in 1..Len(frames) :
          frames[f].done => frames[f].wrote = frames[f].texture /\ frames[f].presentSaw = f

\* C7, the step part: handling a resize changes no texture a queued pass
\* references and nothing already in the queue.
C7_Step ==
    resizes' = resizes + 1 =>
        /\ \A id \in InFlightTextures : textures'[id] = textures[id]
        /\ SubSeq(queue', 1, Len(queue)) = queue
        /\ SubSeq(frames', 1, Len(frames)) = frames

\* C7: a frame submitted before a resize completes against the image and bind
\* groups it was submitted with; the rebuild changes nothing it references.
C7_InFlightFrameUntouched == [](C7_Inv) /\ [][C7_Step]_vars

\* C7's case: a frame completed after a later resize replaced its image.
C7_Witness ==
    \E f \in 1..Len(frames) :
        /\ frames[f].done
        /\ frames[f].doneAfterResizes >= f
        /\ frames[f].texture # computeShader.texture
        /\ frames[f].wrote = frames[f].texture

-----------------------------------------------------------------------------
(* Claims about the shader, stated for SpecShader.                          *)

Pixels(dims) == {[x |-> x, y |-> y] : x \in 0..(dims.width - 1), y \in 0..(dims.height - 1)}

\* C5: one dispatch of ceil(width/8) x ceil(height/8) workgroups stores to
\* exactly the in-bounds pixels, each pixel once, and no invocation whose id is
\* outside the image stores anything.
C5_DispatchCoversImage ==
    result.fn = "dispatch" =>
        /\ {w.coords : w \in result.writes} = Pixels(call.dims)
        /\ \A p \in Pixels(call.dims) :
              Cardinality({w \in result.writes : w.coords = p}) = 1
        /\ \A w \in result.writes : w.id.x < call.dims.width /\ w.id.y < call.dims.height

\* C5's case: an image whose width and height are not multiples of 8, so that
\* the last workgroups overhang it on both sides.
C5_Witness ==
    /\ result.fn = "dispatch"
    /\ call.dims.width > workgroupSize
    /\ call.dims.width % workgroupSize # 0
    /\ call.dims.height % workgroupSize # 0
    /\ Cardinality(Invocations(WorkgroupCount(call.dims))) > call.dims.width * call.dims.height
    /\ Cardinality(result.writes) = call.dims.width * call.dims.height

\* C8: rayColor reads none of t, p, normal of a record hit_sphere returned
\* with hit = false.
C8_MissFieldsNeverRead ==
    (result.fn = "rayColor" /\ ~result.shade.rec.hit) =>
        result.shade.fieldsRead \cap {"t", "p", "normal"} = {}

\* C9: rayColor takes the normal-shading branch exactly when hit_sphere
\* returned hit = true, and the gradient branch exactly when it returned
\* hit = false.
C9_BranchFollowsHit ==
    result.fn = "rayColor" =>
        /\ result.shade.branch = "normal" <=> result.shade.rec.hit
        /\ result.shade.branch = "gradient" <=> ~result.shade.rec.hit

\* C9's case: a miss whose discriminant is not negative (both roots are out of
\* range), shaded by the gradient.
C9_Witness ==
    /\ result.fn = "rayColor"
    /\ Discriminant(TheSphere, call.ray) >= 0
    /\ ~result.shade.rec.hit
    /\ result.shade.branch = "gradient"

\* C10: setFaceNormal returns a normal m with dot(direction, m) <= 0, m being
\* the outward normal and front_face true when dot(direction, outward) < 0, and
\* the negated outward normal and front_face false otherwise; every record
\* hit_sphere returns with hit = true carries such a normal.
C10_NormalOpposesRay ==
    /\ result.fn = "setFaceNormal" =>
          LET d == call.ray.direction
              n == call.outwardNormal
          IN /\ dot(d, result.face.normal) <= 0
             /\ result.face.front_face <=> dot(d, n) < 0
             /\ result.face.normal = IF dot(d, n) < 0 THEN n ELSE VNeg(n)
    /\ (result.fn = "rayColor" /\ result.shade.rec.hit) =>
          LET d == call.ray.direction
              rec == result.shade.rec
              outward == VDiv(VSub(rec.p, TheSphere.center), TheSphere.radius)
          IN /\ dot(d, rec.normal) <= 0
             /\ rec.front_face <=> dot(d, outward) < 0
             /\ rec.normal = IF rec.front_face THEN outward ELSE VNeg(outward)

\* C10's case: a ray that leaves the sphere from inside, where the outward
\* normal points along the ray and hit_sphere returns it negated.
C10_Witness ==
    /\ result.fn = "rayColor"
    /\ result.shade.rec.hit
    /\ ~result.shade.rec.front_face
    /\ dot(call.ray.direction, result.shade.rec.normal) < 0

====
